---- MODULE Spec2Model ----
(***************************************************************************)
(* Model of src/main.cpp: the SyntaxHighlighter (rule table built by       *)
(* setupFormats, highlightBlock applying every rule to one block of text)  *)
(* and the CodeEditor window that owns the document (newFile, open, save,  *)
(* saveAs, maybeSave, loadFile, saveFile, setCurrentFile).                 *)
(*                                                                         *)
(* A text is a sequence of characters, each character a string.  Offsets  *)
(* are 0-based as in QString, so character o of a text t is t[o + 1].      *)
(***************************************************************************)
EXTENDS Integers, Sequences, FiniteSets, TLC

VARIABLES highlightingRules, blocks, formats, currentFile, modified, lastOp

vars == <<highlightingRules, blocks, formats, currentFile, modified, lastOp>>

----------------------------------------------------------------------------
(* Bounds of the model.                                                    *)

\* longest text enumerated character by character
MaxLen == 3
\* most repetitions of one keyword in an enumerated text
MaxRepeat == 3
\* most blocks (lines) of the edited document
MaxBlocks == 2
\* most characters of the edited document, all blocks together
MaxDocLen == 3

----------------------------------------------------------------------------
(* Characters.  QRegularExpression is used without                         *)
(* UseUnicodePropertiesOption, so \b is decided by the ASCII class         *)
(* [A-Za-z0-9_]; "U+00E9" stands for one non-ASCII letter, which that      *)
(* class does not contain.                                                 *)

Lower == {"a", "b", "c", "d", "e", "f", "g", "h", "i", "j", "k", "l", "m",
          "n", "o", "p", "q", "r", "s", "t", "u", "v", "w", "x", "y", "z"}
Upper == {"A", "B", "C", "D", "E", "F", "G", "H", "I", "J", "K", "L", "M",
          "N", "O", "P", "Q", "R", "S", "T", "U", "V", "W", "X", "Y", "Z"}
Digit == {"0", "1", "2", "3", "4", "5", "6", "7", "8", "9"}

\* the characters \w matches
asciiWordChars == Lower \cup Upper \cup Digit \cup {"_"}

isWordCharNoUnderscore(c) == c \in asciiWordChars \ {"_"}

isWordChar(c) == c \in asciiWordChars

\* the character at 0-based offset o of text, "" outside the text
charAt(text, o) == IF o >= 0 /\ o < Len(text) THEN text[o + 1] ELSE ""

\* the regular expression assertion \b at offset o of text
wordBoundary(text, o) ==
    isWordChar(charAt(text, o - 1)) # isWordChar(charAt(text, o))

----------------------------------------------------------------------------
(* The three QTextCharFormat values of setupFormats.                       *)

keywordFormat == [foreground |-> "red", bold |-> TRUE]
loopFormat == [foreground |-> "darkCyan", bold |-> FALSE]
dataTypeFormat == [foreground |-> "darkGreen", bold |-> FALSE]

(* The three QStringList literals of setupFormats.                         *)

dataTypes ==
    << <<"i", "n", "t">>, <<"c", "h", "a", "r">>, <<"f", "l", "o", "a", "t">>,
       <<"d", "o", "u", "b", "l", "e">>, <<"v", "o", "i", "d">> >>

loopKeywords ==
    << <<"f", "o", "r">>, <<"w", "h", "i", "l", "e">>, <<"d", "o">>,
       <<"b", "r", "e", "a", "k">>,
       <<"c", "o", "n", "t", "i", "n", "u", "e">> >>

otherKeywords ==
    << <<"i", "f">>, <<"e", "l", "s", "e">>, <<"r", "e", "t", "u", "r", "n">>,
       <<"s", "w", "i", "t", "c", "h">>, <<"c", "a", "s", "e">>,
       <<"d", "e", "f", "a", "u", "l", "t">> >>

noTrailingBoundaryPattern(word) == <<"\\b">> \o word

\* QRegularExpression("\\b" + word + "\\b"): the pattern as a sequence of
\* elements, the assertion "\\b" or a literal character
wholeWordPattern(word) == <<"\\b">> \o word \o <<"\\b">>

\* the rules one loop of setupFormats appends: one per word, in list order
rulesFor(words, format) ==
    [i \in 1..Len(words) |->
        [pattern |-> wholeWordPattern(words[i]), format |-> format]]

setupFormatsLoopsFirst ==
    rulesFor(loopKeywords, loopFormat)
        \o rulesFor(dataTypes, dataTypeFormat)
        \o rulesFor(otherKeywords, keywordFormat)

setupFormatsLoopsAsKeywords ==
    rulesFor(dataTypes, dataTypeFormat)
        \o rulesFor(loopKeywords, keywordFormat)
        \o rulesFor(otherKeywords, keywordFormat)

\* highlightingRules after setupFormats
setupFormats ==
    rulesFor(dataTypes, dataTypeFormat)
        \o rulesFor(loopKeywords, loopFormat)
        \o rulesFor(otherKeywords, keywordFormat)

----------------------------------------------------------------------------
(* Matching.                                                               *)

\* the offset where a match of pattern elements k.. ends when the element
\* k is tried at offset o of text, -1 when the pattern does not match there
RECURSIVE matchFrom(_, _, _, _)
matchFrom(pattern, k, text, o) ==
    IF k > Len(pattern) THEN o
    ELSE IF pattern[k] = "\\b"
         THEN IF wordBoundary(text, o)
              THEN matchFrom(pattern, k + 1, text, o)
              ELSE -1
         ELSE IF charAt(text, o) = pattern[k]
              THEN matchFrom(pattern, k + 1, text, o + 1)
              ELSE -1

RECURSIVE firstMatchOnly(_, _, _)
firstMatchOnly(pattern, text, from) ==
    IF from > Len(text) THEN << >>
    ELSE LET end == matchFrom(pattern, 1, text, from)
         IN  IF end > from
             THEN << [capturedStart |-> from, capturedLength |-> end - from] >>
             ELSE firstMatchOnly(pattern, text, from + 1)

\* QRegularExpression::globalMatch: the matches found from offset from on,
\* leftmost first, each search resuming where the previous match ended
RECURSIVE globalMatch(_, _, _)
globalMatch(pattern, text, from) ==
    IF from > Len(text) THEN << >>
    ELSE LET end == matchFrom(pattern, 1, text, from)
         IN  IF end > from
             THEN << [capturedStart |-> from, capturedLength |-> end - from] >>
                      \o globalMatch(pattern, text, end)
             ELSE globalMatch(pattern, text, from + 1)

\* the setFormat calls of the inner while loop for one rule
setFormatCalls(rule, text) ==
    LET ms == globalMatch(rule.pattern, text, 0)
    IN  [i \in 1..Len(ms) |->
            [start |-> ms[i].capturedStart, length |-> ms[i].capturedLength,
             format |-> rule.format]]

RECURSIVE highlightRulesFrom(_, _, _)
highlightRulesFrom(rules, r, text) ==
    IF r > Len(rules) THEN << >>
    ELSE setFormatCalls(rules[r], text) \o highlightRulesFrom(rules, r + 1, text)

RECURSIVE highlightRulesBackwards(_, _, _)
highlightRulesBackwards(rules, r, text) ==
    IF r < 1 THEN << >>
    ELSE setFormatCalls(rules[r], text)
             \o highlightRulesBackwards(rules, r - 1, text)

highlightBlockReversed(rules, text) ==
    highlightRulesBackwards(rules, Len(rules), text)

\* highlightBlock: the sequence of setFormat calls it makes for text
highlightBlock(rules, text) == highlightRulesFrom(rules, 1, text)

----------------------------------------------------------------------------
(* The document of the QTextEdit: blocks is the text of each block (line), *)
(* formats the setFormat calls the highlighter made for each block when it *)
(* last highlighted it.  The files are outside the program: what a file    *)
(* holds when it is read is an input, and whether QFile::open succeeds is  *)
(* one too.                                                                *)

\* QTextEdit::setPlainText: one block per line of the content
RECURSIVE splitLines(_, _)
splitLines(content, cur) ==
    IF Len(content) = 0 THEN <<cur>>
    ELSE IF Head(content) = "\n"
         THEN <<cur>> \o splitLines(Tail(content), << >>)
         ELSE splitLines(Tail(content), Append(cur, Head(content)))

setPlainText(content) == splitLines(content, << >>)

rehighlightWithNextBlock(rules, bs, i) ==
    LET own == bs[i]
        seen == IF i < Len(bs) THEN own \o bs[i + 1] ELSE own
    IN  SelectSeq(highlightBlock(rules, seen), LAMBDA s : s.start < Len(own))

\* QSyntaxHighlighter calling highlightBlock with the text of block i
rehighlightBlock(rules, bs, i) == highlightBlock(rules, bs[i])

\* QSyntaxHighlighter::rehighlight: every block of the document
rehighlight(rules, bs) == [i \in 1..Len(bs) |-> rehighlightBlock(rules, bs, i)]

RECURSIVE docLen(_)
docLen(bs) == IF Len(bs) = 0 THEN 0 ELSE Len(Head(bs)) + docLen(Tail(bs))

\* characters typed in the editor
EdChars == {"d", "o"}

\* names the file dialogs can return; "" is a dismissed dialog
DialogNames == {"", "a.c"}

\* what in.readAll() can return in loadFile
FileContents ==
    { << >>, <<"d", "\n", "o">>, <<"d", "o", "\n", "d", "o">> }

\* buttons of the QMessageBox::warning of maybeSave
Buttons == {"Save", "Discard", "Cancel"}

----------------------------------------------------------------------------
(* The CodeEditor methods, as functions from the editor's state e (a       *)
(* record of the document, currentFile and the modified flag, with ret the *)
(* value the method returns) to the state after the call.  ok is whether   *)
(* QFile::open succeeds.                                                   *)

editorState ==
    [blocks |-> blocks, formats |-> formats, currentFile |-> currentFile,
     modified |-> modified, ret |-> TRUE]

setCurrentFile(e, fileName) ==
    [e EXCEPT !.currentFile = fileName, !.modified = FALSE]

\* saveFile: the text written to the file leaves the program; what stays
\* is setCurrentFile and the result
saveFile(e, fileName, ok) ==
    IF ~ok THEN [e EXCEPT !.ret = FALSE]
    ELSE [setCurrentFile(e, fileName) EXCEPT !.ret = TRUE]

saveAs(e, dialogName, ok) ==
    IF dialogName # "" THEN saveFile(e, dialogName, ok)
    ELSE [e EXCEPT !.ret = FALSE]

save(e, dialogName, ok) ==
    IF e.currentFile = "" THEN saveAs(e, dialogName, ok)
    ELSE saveFile(e, e.currentFile, ok)

maybeSaveCancelProceeds(e, button, dialogName, ok) ==
    IF e.modified /\ button = "Save" THEN save(e, dialogName, ok)
    ELSE [e EXCEPT !.ret = TRUE]

maybeSave(e, button, dialogName, ok) ==
    IF e.modified
    THEN IF button = "Save" THEN save(e, dialogName, ok)
         ELSE IF button = "Cancel" THEN [e EXCEPT !.ret = FALSE]
         ELSE [e EXCEPT !.ret = TRUE]
    ELSE [e EXCEPT !.ret = TRUE]

loadFile(e, rules, fileName, content, ok) ==
    IF ~ok THEN e
    ELSE LET bs == setPlainText(content)
         IN  setCurrentFile(
                 [e EXCEPT !.blocks = bs, !.formats = rehighlight(rules, bs)],
                 fileName)

\* QTextEdit::clear: one empty block, highlighted again
clear(e, rules) ==
    [e EXCEPT !.blocks = << << >> >>,
              !.formats = rehighlight(rules, << << >> >>)]

\* what the unsaved-changes prompt of maybeSave came to: "none" when it
\* was not shown, else the button, Save told apart by the result of save
promptOutcome(e, button, dialogName, ok) ==
    IF ~e.modified THEN "none"
    ELSE IF button = "Save"
         THEN IF save(e, dialogName, ok).ret THEN "Saved" ELSE "SaveFailed"
         ELSE button

\* the ways the maybeSave call of a handler can end: the state after it
\* and the outcome of its prompt, over the user's and the file's answers
maybeSaveOutcomes(e) ==
    { [after |-> maybeSave(e, button, dialogName, ok),
       prompt |-> promptOutcome(e, button, dialogName, ok)] :
          button \in Buttons, dialogName \in DialogNames, ok \in BOOLEAN }

\* newFile, m the state its maybeSave call left
newFile(m, rules) ==
    IF m.ret THEN setCurrentFile(clear(m, rules), "") ELSE m

\* open, m the state its maybeSave call left
open(m, rules, openName, content, openOk) ==
    IF m.ret /\ openName # ""
    THEN loadFile(m, rules, openName, content, openOk)
    ELSE m

\* the editor's variables take the values of the state e
becomes(e) ==
    /\ blocks' = e.blocks
    /\ formats' = e.formats
    /\ currentFile' = e.currentFile
    /\ modified' = e.modified

----------------------------------------------------------------------------
(* The running editor.                                                     *)

Init ==
    /\ highlightingRules = setupFormats
    /\ blocks = << << >> >>
    /\ formats = << << >> >>
    /\ currentFile = ""
    /\ modified = FALSE
    /\ lastOp = [op |-> "construct", prompt |-> "none"]

insertAt(text, p, c) == SubSeq(text, 1, p) \o <<c>> \o SubSeq(text, p + 1, Len(text))

removeAt(text, p) == SubSeq(text, 1, p) \o SubSeq(text, p + 2, Len(text))

\* the document after an edit that leaves the blocks bs and touched the
\* blocks of the set changed: only those are highlighted again
edited(bs, kept, changed) ==
    /\ blocks' = bs
    /\ formats' = [j \in 1..Len(bs) |->
                     IF j \in changed
                     THEN rehighlightBlock(highlightingRules, bs, j)
                     ELSE kept[j]]
    /\ modified' = TRUE
    /\ lastOp' = [op |-> "edit", prompt |-> "none"]
    /\ UNCHANGED <<highlightingRules, currentFile>>

\* a key press inserting the character c at offset p of block i
TypeChar ==
    \E i \in 1..Len(blocks), c \in EdChars :
        \E p \in 0..Len(blocks[i]) :
            /\ docLen(blocks) < MaxDocLen
            /\ edited([blocks EXCEPT ![i] = insertAt(blocks[i], p, c)],
                      formats, {i})

DeleteCharKeepsOldSpans ==
    \E i \in 1..Len(blocks) :
        \E p \in 0..(Len(blocks[i]) - 1) :
            /\ blocks' = [blocks EXCEPT ![i] = removeAt(blocks[i], p)]
            /\ formats' = [formats EXCEPT
                             ![i] = @ \o rehighlightBlock(highlightingRules,
                                                          blocks', i)]
            /\ modified' = TRUE
            /\ lastOp' = [op |-> "edit", prompt |-> "none"]
            /\ UNCHANGED <<highlightingRules, currentFile>>

\* Delete removing the character at offset p of block i
DeleteChar ==
    \E i \in 1..Len(blocks) :
        \E p \in 0..(Len(blocks[i]) - 1) :
            edited([blocks EXCEPT ![i] = removeAt(blocks[i], p)], formats, {i})

\* Enter at offset p of block i: the block is split in two
SplitBlock ==
    \E i \in 1..Len(blocks) :
        \E p \in 0..Len(blocks[i]) :
            /\ Len(blocks) < MaxBlocks
            /\ edited(SubSeq(blocks, 1, i - 1)
                        \o <<SubSeq(blocks[i], 1, p),
                             SubSeq(blocks[i], p + 1, Len(blocks[i]))>>
                        \o SubSeq(blocks, i + 1, Len(blocks)),
                      SubSeq(formats, 1, i) \o SubSeq(formats, i, Len(formats)),
                      {i, i + 1})

\* Backspace at the start of block i + 1: it is joined to block i
JoinBlocks ==
    \E i \in 1..(Len(blocks) - 1) :
        edited(SubSeq(blocks, 1, i - 1)
                 \o <<blocks[i] \o blocks[i + 1]>>
                 \o SubSeq(blocks, i + 2, Len(blocks)),
               SubSeq(formats, 1, i) \o SubSeq(formats, i + 2, Len(formats)),
               {i})

NewFile ==
    \E o \in maybeSaveOutcomes(editorState) :
        /\ becomes(newFile(o.after, highlightingRules))
        /\ lastOp' = [op |-> "newFile", prompt |-> o.prompt]
        /\ UNCHANGED highlightingRules

Open ==
    \E o \in maybeSaveOutcomes(editorState) :
        \E openName \in DialogNames, content \in FileContents, openOk \in BOOLEAN :
            /\ becomes(open(o.after, highlightingRules, openName, content, openOk))
            /\ lastOp' = [op |-> "open", prompt |-> o.prompt]
            /\ UNCHANGED highlightingRules

Save ==
    \E dialogName \in DialogNames, ok \in BOOLEAN :
        /\ becomes(save(editorState, dialogName, ok))
        /\ lastOp' = [op |-> "save", prompt |-> "none"]
        /\ UNCHANGED highlightingRules

SaveAs ==
    \E dialogName \in DialogNames, ok \in BOOLEAN :
        /\ becomes(saveAs(editorState, dialogName, ok))
        /\ lastOp' = [op |-> "saveAs", prompt |-> "none"]
        /\ UNCHANGED highlightingRules

Next ==
    \/ TypeChar
    \/ DeleteChar
    \/ SplitBlock
    \/ JoinBlocks
    \/ NewFile
    \/ Open
    \/ Save
    \/ SaveAs

Spec == Init /\ [][Next]_vars

----------------------------------------------------------------------------
(* The highlighter on a document that already holds one block of text:     *)
(* the QSyntaxHighlighter constructor schedules a rehighlight, which calls *)
(* highlightBlock for the block.  The text is drawn from Texts.            *)

Alphabet == {"i", "n", "t", "d", "o", " ", "_", "1", "I", "U+00E9"}

Keywords ==
    {dataTypes[i] : i \in 1..Len(dataTypes)}
        \cup {loopKeywords[i] : i \in 1..Len(loopKeywords)}
        \cup {otherKeywords[i] : i \in 1..Len(otherKeywords)}

\* what stands right before or right after a keyword
Affixes ==
    { << >>, <<" ">>, <<"x">>, <<"_">>, <<"1">>, <<"(">>, <<"U+00E9">>,
      <<"I">> }

\* what stands between two keywords
Separators == { << >>, <<" ">>, <<";">> }

CharTexts == UNION {[1..n -> Alphabet] : n \in 0..MaxLen}

AffixTexts == {pre \o k \o post : pre \in Affixes, k \in Keywords, post \in Affixes}

PairTexts == {k1 \o sep \o k2 : k1 \in Keywords, sep \in Separators, k2 \in Keywords}

RECURSIVE repeated(_, _)
repeated(k, n) == IF n = 0 THEN << >> ELSE k \o <<" ">> \o repeated(k, n - 1)

RepeatTexts == {repeated(k, n) : k \in Keywords, n \in 1..MaxRepeat}

Integer == <<"i", "n", "t", "e", "g", "e", "r">>
IntX == <<"i", "n", "t", " ", "x">>
IfIf ==
    <<"i", "f", " ", "(", "a", ")", " ", "{", " ", "i", "f", " ", "(", "b",
      ")", " ", "{", "}", " ", "}">>
ForIntReturn ==
    <<"f", "o", "r", "(", "i", "n", "t", " ", "i", "=", "0", ";", "i", "<",
      "1", "0", ";", "i", "+", "+", ")", " ", "{", " ", "r", "e", "t", "u",
      "r", "n", ";", " ", "}">>
IfInt == <<"i", "f", " ", "i", "n", "t">>
Double == <<"d", "o", "u", "b", "l", "e">>

Examples == {Integer, IntX, IfIf, ForIntReturn, IfInt, Double}

Texts == CharTexts \cup AffixTexts \cup PairTexts \cup RepeatTexts \cup Examples

InitClassify ==
    /\ highlightingRules = setupFormats
    /\ blocks \in {<<t>> : t \in Texts}
    /\ formats = << << >> >>
    /\ currentFile = ""
    /\ modified = FALSE
    /\ lastOp = [op |-> "load", prompt |-> "none"]

\* the scheduled rehighlight: highlightBlock on every block
Rehighlight ==
    /\ lastOp.op = "load"
    /\ formats' = rehighlight(highlightingRules, blocks)
    /\ lastOp' = [op |-> "rehighlight", prompt |-> "none"]
    /\ UNCHANGED <<highlightingRules, blocks, currentFile, modified>>

NextClassify == Rehighlight

SpecClassify == InitClassify /\ [][NextClassify]_vars

----------------------------------------------------------------------------
(* The properties.  They are stated with their own reading of the rule     *)
(* table and of a whole-word occurrence, not with the matcher above.       *)

\* the rule table as the specification lists it
RuleTable ==
    << [word |-> <<"i", "n", "t">>, category |-> "DataType"],
       [word |-> <<"c", "h", "a", "r">>, category |-> "DataType"],
       [word |-> <<"f", "l", "o", "a", "t">>, category |-> "DataType"],
       [word |-> <<"d", "o", "u", "b", "l", "e">>, category |-> "DataType"],
       [word |-> <<"v", "o", "i", "d">>, category |-> "DataType"],
       [word |-> <<"f", "o", "r">>, category |-> "Loop"],
       [word |-> <<"w", "h", "i", "l", "e">>, category |-> "Loop"],
       [word |-> <<"d", "o">>, category |-> "Loop"],
       [word |-> <<"b", "r", "e", "a", "k">>, category |-> "Loop"],
       [word |-> <<"c", "o", "n", "t", "i", "n", "u", "e">>, category |-> "Loop"],
       [word |-> <<"i", "f">>, category |-> "Keyword"],
       [word |-> <<"e", "l", "s", "e">>, category |-> "Keyword"],
       [word |-> <<"r", "e", "t", "u", "r", "n">>, category |-> "Keyword"],
       [word |-> <<"s", "w", "i", "t", "c", "h">>, category |-> "Keyword"],
       [word |-> <<"c", "a", "s", "e">>, category |-> "Keyword"],
       [word |-> <<"d", "e", "f", "a", "u", "l", "t">>, category |-> "Keyword"] >>

RuleIds == 1..Len(RuleTable)

\* the format that shows a category
FormatOf(category) ==
    CASE category = "DataType" -> [foreground |-> "darkGreen", bold |-> FALSE]
      [] category = "Loop" -> [foreground |-> "darkCyan", bold |-> FALSE]
      [] category = "Keyword" -> [foreground |-> "red", bold |-> TRUE]

\* letters, digits and the underscore
WordCharacters == Lower \cup Upper \cup Digit \cup {"_"}

\* a word character stands at offset o of text
WordCharacterAt(text, o) ==
    o >= 0 /\ o < Len(text) /\ text[o + 1] \in WordCharacters

\* the text at [o, o + |word|) is word
TextIs(text, o, word) ==
    /\ o >= 0
    /\ o + Len(word) <= Len(text)
    /\ SubSeq(text, o + 1, o + Len(word)) = word

\* word occurs at offset o of text as a whole word
WholeWordAt(text, word, o) ==
    /\ TextIs(text, o, word)
    /\ ~WordCharacterAt(text, o - 1)
    /\ ~WordCharacterAt(text, o + Len(word))

\* the offsets where word occurs in text as a whole word
Occurrences(text, word) == {o \in 0..Len(text) : WholeWordAt(text, word, o)}

\* the span s, emitted for text, is a span of rule r
SpanOfRule(text, s, r) ==
    /\ s.length = Len(RuleTable[r].word)
    /\ s.format = FormatOf(RuleTable[r].category)
    /\ TextIs(text, s.start, RuleTable[r].word)

\* the rule whose word the span s covers in text, 0 when there is none
RuleIndexOf(text, s) ==
    IF \E r \in RuleIds : SpanOfRule(text, s, r)
    THEN CHOOSE r \in RuleIds : SpanOfRule(text, s, r)
    ELSE 0

Span(start, length, category) ==
    [start |-> start, length |-> length, format |-> FormatOf(category)]

\* every block of the document has been classified
Highlighted == lastOp.op # "load"

BlockIds == 1..Len(blocks)

\* C1: whole-word boundary.  A span of keyword k's rule starts at offset o
\* exactly when the text at [o, o + |k|) is k and no word character stands
\* right before o or right after o + |k|; "integer" gets no DataType span
\* and "int x" gets the DataType span (0, 3).
C1_WholeWordBoundary ==
    Highlighted =>
        \A b \in BlockIds :
            /\ \A r \in RuleIds, o \in 0..Len(blocks[b]) :
                   (\E n \in 1..Len(formats[b]) :
                        /\ formats[b][n].start = o
                        /\ SpanOfRule(blocks[b], formats[b][n], r))
                   <=> WholeWordAt(blocks[b], RuleTable[r].word, o)
            /\ blocks[b] = Integer =>
                   \A n \in 1..Len(formats[b]) :
                       formats[b][n].format # FormatOf("DataType")
            /\ blocks[b] = IntX =>
                   \E n \in 1..Len(formats[b]) :
                       formats[b][n] = Span(0, 3, "DataType")

C1_Witness ==
    /\ lastOp.op = "rehighlight"
    /\ blocks = <<IntX>>
    /\ formats = << <<Span(0, 3, "DataType")>> >>

\* C2: a text in which no keyword occurs as a whole word, the empty text
\* included, gets no span.
C2_NoKeywordNoSpan ==
    Highlighted =>
        \A b \in BlockIds :
            (\A r \in RuleIds : Occurrences(blocks[b], RuleTable[r].word) = {})
                => formats[b] = << >>

C2_Witness ==
    /\ lastOp.op = "rehighlight"
    /\ blocks = <<Integer>>
    /\ formats = << << >> >>

\* C3: a text that is exactly one keyword gets exactly one span, from
\* offset 0 over the whole text, in the category of that keyword.
C3_SingleKeyword ==
    Highlighted =>
        \A b \in BlockIds, r \in RuleIds :
            blocks[b] = RuleTable[r].word =>
                formats[b] =
                    <<Span(0, Len(blocks[b]), RuleTable[r].category)>>

C3_Witness ==
    /\ lastOp.op = "rehighlight"
    /\ blocks = <<Double>>
    /\ formats = << <<Span(0, 6, "DataType")>> >>

\* C4: for every keyword the spans of its rule are as many as its whole-word
\* occurrences, one at each occurrence's offset, neither merged nor
\* dropped; the two example texts get the spans the specification lists.
C4_OneSpanPerOccurrence ==
    Highlighted =>
        \A b \in BlockIds :
            /\ \A r \in RuleIds :
                   LET ns == {n \in 1..Len(formats[b]) :
                                 SpanOfRule(blocks[b], formats[b][n], r)}
                       os == Occurrences(blocks[b], RuleTable[r].word)
                   IN  /\ Cardinality(ns) = Cardinality(os)
                       /\ {formats[b][n].start : n \in ns} = os
            /\ \A n \in 1..Len(formats[b]) : RuleIndexOf(blocks[b], formats[b][n]) # 0
            /\ blocks[b] = IfIf =>
                   /\ Len(formats[b]) = 2
                   /\ {formats[b][n] : n \in 1..2}
                          = {Span(0, 2, "Keyword"), Span(9, 2, "Keyword")}
            /\ blocks[b] = ForIntReturn =>
                   {formats[b][n] : n \in 1..Len(formats[b])}
                       = {Span(0, 3, "Loop"), Span(4, 3, "DataType"),
                          Span(24, 6, "Keyword")}

C4_Witness ==
    /\ lastOp.op = "rehighlight"
    /\ blocks = <<IfIf>>
    /\ Len(formats[1]) = 2

\* C5: spans are emitted in rule-table order, and the spans of one rule by
\* ascending offset; for "if int" the DataType span at offset 3 comes before
\* the Keyword span at offset 0.
C5_EmissionOrder ==
    Highlighted =>
        \A b \in BlockIds :
            /\ \A m, n \in 1..Len(formats[b]) :
                   m < n =>
                       LET rm == RuleIndexOf(blocks[b], formats[b][m])
                           rn == RuleIndexOf(blocks[b], formats[b][n])
                       IN  /\ rm <= rn
                           /\ rm = rn => formats[b][m].start < formats[b][n].start
            /\ blocks[b] = IfInt =>
                   formats[b] = <<Span(3, 3, "DataType"), Span(0, 2, "Keyword")>>

C5_Witness ==
    /\ lastOp.op = "rehighlight"
    /\ blocks = <<IfInt>>
    /\ Len(formats[1]) = 2
    /\ formats[1][1].start > formats[1][2].start

\* the rules the constructor must have built, from the table above
ExpectedRules ==
    [r \in RuleIds |->
        [pattern |-> <<"\\b">> \o RuleTable[r].word \o <<"\\b">>,
         format |-> FormatOf(RuleTable[r].category)]]

\* C6: the rule table holds the 16 rules of the specification, in its order,
\* from construction on: no operation changes it.
C6_RuleTableFixed ==
    /\ Len(highlightingRules) = Len(RuleTable)
    /\ highlightingRules = ExpectedRules

C6_Witness ==
    /\ lastOp.op = "edit"
    /\ \E b \in BlockIds : formats[b] # << >>
    /\ highlightingRules = ExpectedRules

C8_SpansDisjoint ==
    Highlighted =>
        \A b \in BlockIds :
            \A m, n \in 1..Len(formats[b]) :
                m # n =>
                    \/ formats[b][m].start + formats[b][m].length
                           <= formats[b][n].start
                    \/ formats[b][n].start + formats[b][n].length
                           <= formats[b][m].start

C8_Witness ==
    /\ lastOp.op = "rehighlight"
    /\ \E k \in Keywords : blocks = <<Double \o <<" ">> \o k>>
    /\ Len(formats[1]) = 2

\* the spans of block b are those of its own text: each lies inside the
\* block on a whole-word occurrence of a keyword, and each occurrence in the
\* block has its span
OwnSpans(b) ==
    /\ \A n \in 1..Len(formats[b]) :
           /\ formats[b][n].start + formats[b][n].length <= Len(blocks[b])
           /\ \E r \in RuleIds :
                  /\ SpanOfRule(blocks[b], formats[b][n], r)
                  /\ WholeWordAt(blocks[b], RuleTable[r].word, formats[b][n].start)
    /\ \A r \in RuleIds :
           \A o \in Occurrences(blocks[b], RuleTable[r].word) :
               \E n \in 1..Len(formats[b]) :
                   /\ formats[b][n].start = o
                   /\ SpanOfRule(blocks[b], formats[b][n], r)

\* the blocks that a step left in place, counted from the start or from the
\* end of the document, keep their spans
UntouchedBlocksKeepSpans ==
    /\ \A j \in 1..Len(blocks) :
           (j <= Len(blocks') /\ \A k \in 1..j : blocks'[k] = blocks[k])
               => formats'[j] = formats[j]
    /\ \A d \in 0..(Len(blocks) - 1) :
           (d < Len(blocks')
              /\ \A k \in 0..d : blocks'[Len(blocks') - k] = blocks[Len(blocks) - k])
               => formats'[Len(blocks') - d] = formats[Len(blocks) - d]

\* C9: block locality.  The spans of a block come from its own text alone,
\* so no match crosses a block boundary, and an edit leaves the spans of
\* the blocks it did not touch as they were.
C9_BlockLocality ==
    /\ [](\A b \in BlockIds : OwnSpans(b))
    /\ [][lastOp'.op = "edit" => UntouchedBlocksKeepSpans]_vars

C9_Witness ==
    /\ lastOp.op = "edit"
    /\ blocks = << <<"d">>, <<"o">> >>
    /\ formats = << << >>, << >> >>

\* C10: newFile and open on a modified document.  When the prompt is
\* answered Cancel, or Save and the save fails, the step leaves the text,
\* currentFile and the modified flag as they were; the text is replaced
\* only after Discard or a successful save.
C10_UnsavedChangesGuard ==
    [][(lastOp'.op \in {"newFile", "open"} /\ modified) =>
          /\ lastOp'.prompt \in {"Cancel", "SaveFailed"} =>
                 UNCHANGED <<blocks, currentFile, modified>>
          /\ blocks' # blocks => lastOp'.prompt \in {"Discard", "Saved"}]_vars

C10_Witness ==
    /\ lastOp.op \in {"newFile", "open"}
    /\ lastOp.prompt \in {"Cancel", "SaveFailed"}
    /\ modified
    /\ blocks = << <<"d", "o">> >>

====
